---- MODULE Spec2Model ----
(***************************************************************************)
(* Model of bikeshare.py: the prompt loop (get_input, get_filters), the    *)
(* loader and filter (load_data), the four sub-reports (time_stats,        *)
(* station_stats, trip_duration_stats, user_stats) and the loop of main.   *)
(*                                                                         *)
(* A DataFrame is a record [columns, rows]; a row is a function from the   *)
(* column names that hold a value to that value, so a missing value (NaN)  *)
(* is a column of the table that is not in the row's domain.               *)
(***************************************************************************)
EXTENDS Integers, Sequences, FiniteSets, TLC

\* ---------------------------------------------------------------- bounds
MaxRows == 3
MaxWarnings == 1

\* ------------------------------------------------------- module constants
CITY_DATA ==
    ("chicago" :> "chicago.csv") @@ ("new york" :> "new_york_city.csv")
        @@ ("washington" :> "washington.csv")

filter_choice_options == <<"month", "day", "both", "none">>

month_choices == <<"january", "february", "march", "april", "may", "june">>

\* [str(x) for x in range(1,8)]
day_choices == <<"1", "2", "3", "4", "5", "6", "7">>

\* calendar.day_name, indexed from 0 in Python: Monday first
day_name ==
    <<"Monday", "Tuesday", "Wednesday", "Thursday", "Friday", "Saturday",
      "Sunday">>

\* calendar.month_name, indexed from 0 in Python: month_name[0] is ''
month_name ==
    <<"", "January", "February", "March", "April", "May", "June", "July",
      "August", "September", "October", "November", "December">>

\* a name that is not bound yet in its frame
Unbound == "<unbound>"

\* ------------------------------------------------------- Python built-ins
Range(s) == {s[i] : i \in DOMAIN s}

\* seq[i] of a Python sequence: 0-based, a negative index counts from the end
PyIndex(s, i) == IF i < 0 THEN s[Len(s) + i + 1] ELSE s[i + 1]

\* list.index(x): 0-based position of the first occurrence
PyListIndex(s, x) == (CHOOSE i \in DOMAIN s : s[i] = x /\ \A j \in 1..(i - 1) : s[j] # x) - 1

\* str.lower() on the entries a user types here
LowerForms ==
    ("Chicago" :> "chicago") @@ ("NEW YORK" :> "new york")
        @@ ("Washington" :> "washington") @@ ("Month" :> "month")
        @@ ("DAY" :> "day") @@ ("Both" :> "both") @@ ("None" :> "none")
        @@ ("January" :> "january") @@ ("JUNE" :> "june")
        @@ ("Sunday" :> "sunday") @@ ("All" :> "all")
        @@ ("YES" :> "yes") @@ ("No" :> "no")

Lower(s) == IF s \in DOMAIN LowerForms THEN LowerForms[s] ELSE s

\* str.title() on single lower-case or capitalised words
TitleForms ==
    ("monday" :> "Monday") @@ ("tuesday" :> "Tuesday")
        @@ ("wednesday" :> "Wednesday") @@ ("thursday" :> "Thursday")
        @@ ("friday" :> "Friday") @@ ("saturday" :> "Saturday")
        @@ ("sunday" :> "Sunday") @@ ("all" :> "All")

Title(s) == IF s \in DOMAIN TitleForms THEN TitleForms[s] ELSE s

\* int() of a one-digit string
DigitChars == <<"0", "1", "2", "3", "4", "5", "6", "7", "8", "9">>

PyInt(s) == PyListIndex(DigitChars, s)

\* str() of a non-negative integer
RECURSIVE PyStr(_)
PyStr(n) == IF n < 10 THEN DigitChars[n + 1] ELSE PyStr(n \div 10) \o DigitChars[(n % 10) + 1]

\* "%02d" % n for n >= 0
Fmt02d(n) == IF n < 10 THEN "0" \o PyStr(n) ELSE PyStr(n)

\* divmod(a, b) for b > 0
Divmod(a, b) == <<a \div b, a % b>>

\* round(num / den) for num >= 0, den > 0: Python 3 rounds halves to even
PyRound(num, den) ==
    LET q == num \div den
        r == num % den
    IN  IF 2 * r < den THEN q
        ELSE IF 2 * r > den THEN q + 1
        ELSE IF q % 2 = 0 THEN q ELSE q + 1

\* ------------------------------------------------------------ user entries
\* what a user may type at a prompt
Entries ==
    {"chicago", "Chicago", "NEW YORK", "washington", "new york city",
     "month", "DAY", "day", "both", "Both", "none",
     "january", "January", "february", "march", "april", "may", "JUNE", "july",
     "0", "1", "2", "3", "4", "5", "6", "7", "8",
     "Sunday", "all", "", "yes", "YES", "no", "y"}

VARIABLES
    pc,              \* position of the program
    city,            \* get_filters / main: city
    filter_choice,   \* get_filters: filter_choice
    month,           \* get_filters / main: month
    day,             \* get_filters / main: day
    warnings,        \* warnings get_input has printed in this get_filters call
    df,              \* load_data / main: df
    result_message,  \* the result_message each sub-report printed, by report
    restart          \* main: restart

vars == <<pc, city, filter_choice, month, day, warnings, df, result_message, restart>>

\* ------------------------------------------------------------- DataFrames
\* columns every city file has (those the program reads)
RequiredColumns == {"Start Time", "Trip Duration", "Start Station", "End Station", "User Type"}

\* columns only some city files have
OptionalColumns == {"Gender", "Birth Year"}

\* days of 2017 before the first of each month
DaysBefore == <<0, 31, 59, 90, 120, 151, 181, 212, 243, 273, 304, 334>>

\* datetime.weekday() of a 2017 timestamp, Monday = 0 (1 January 2017 was a Sunday)
Weekday(ts) == (6 + DaysBefore[ts.month] + ts.day - 1) % 7

\* Series.dt.strftime("%A")
StrftimeA(ts) == PyIndex(day_name, Weekday(ts))

Trip(ts, from, to, duration, user) ==
    ("Start Time" :> ts) @@ ("Start Station" :> from) @@ ("End Station" :> to)
        @@ ("Trip Duration" :> duration) @@ ("User Type" :> user)

Rider(gender, born) == ("Gender" :> gender) @@ ("Birth Year" :> born)

\* the trip records a city file may hold; a Customer's record has no
\* Gender and no Birth Year value
RowPool ==
    { Trip([month |-> 1, day |-> 1, hour |-> 0], "Canal St", "State St", 31536000, "Subscriber")
          @@ Rider("Male", 1980),
      Trip([month |-> 1, day |-> 2, hour |-> 23], "State St", "Canal St", 86400, "Customer"),
      Trip([month |-> 6, day |-> 4, hour |-> 8], "Canal St", "Canal St", 61, "Subscriber")
          @@ Rider("Female", 1992) }

\* what pd.read_csv can return: up to MaxRows records under a file's columns
Restrict(r, cols) == [c \in (DOMAIN r) \cap cols |-> r[c]]

FileRows == UNION {[1..n -> RowPool] : n \in 0..MaxRows}

NoDataFrame == [columns |-> {}, rows |-> <<>>]

\* df[c] = series, a value for each row
AssignColumn(d, c, series) ==
    [columns |-> d.columns \cup {c},
     rows |-> [i \in DOMAIN d.rows |-> (c :> series[i]) @@ d.rows[i]]]

\* df['Start Time']
StartTime(d) == [i \in DOMAIN d.rows |-> d.rows[i]["Start Time"]]

\* df[df[c] == v]
Where(d, c, v) ==
    [columns |-> d.columns,
     rows |-> SelectSeq(d.rows, LAMBDA r : c \in DOMAIN r /\ r[c] = v)]

\* df[c].count(): the rows that hold a value in column c
Count(d, c) == Cardinality({i \in DOMAIN d.rows : c \in DOMAIN d.rows[i]})

\* the values column c holds
Values(d, c) == {d.rows[i][c] : i \in {j \in DOMAIN d.rows : c \in DOMAIN d.rows[j]}}

\* ascending order of the strings that are compared: code-point order
StrOrder ==
    <<"Canal St", "Canal St -to- Canal St", "Canal St -to- State St",
      "Friday", "Monday", "Saturday", "State St", "State St -to- Canal St",
      "State St -to- State St", "Sunday", "Thursday", "Tuesday", "Wednesday">>

\* the columns whose values are numbers
NumericColumns == {"month", "hour", "Trip Duration", "Birth Year"}

\* the order mode() sorts the values of column c by: of numbers, or of strings
Leq(c, a, b) ==
    IF c \in NumericColumns THEN a <= b ELSE PyListIndex(StrOrder, a) <= PyListIndex(StrOrder, b)

\* df[c].mode(): the most frequent values of column c, missing values dropped
Mode(d, c) ==
    {v \in Values(d, c) : \A w \in Values(d, c) : Count(Where(d, c, w), c) <= Count(Where(d, c, v), c)}

\* df[c].mode()[0] raises when the column holds no value
ModeRaises(d, c) == Mode(d, c) = {}

\* df[c].mode()[0]: mode() is sorted ascending
Mode0(d, c) == CHOOSE v \in Mode(d, c) : \A w \in Mode(d, c) : Leq(c, v, w)

\* df[c].sum()
RECURSIVE SeqSum(_)
SeqSum(s) == IF s = <<>> THEN 0 ELSE Head(s) + SeqSum(Tail(s))

Sum(d, c) == SeqSum([i \in DOMAIN d.rows |-> IF c \in DOMAIN d.rows[i] THEN d.rows[i][c] ELSE 0])

\* df.groupby(c)[c].count()
GroupCounts(d, c) == {<<v, Count(Where(d, c, v), c)>> : v \in Values(d, c)}

\* ------------------------------------------------------------------- Init
Init ==
    /\ pc = "get_filters"
    /\ city = Unbound
    /\ filter_choice = Unbound
    /\ month = Unbound
    /\ day = Unbound
    /\ warnings = 0
    /\ df = NoDataFrame
    /\ result_message = [f \in {"time_stats", "station_stats", "trip_duration_stats", "user_stats"} |-> <<>>]
    /\ restart = Unbound

\* ------------------------------------------------------------ get_filters
\* get_input: the test that ends the loop
Accepted(choices, entry) == Lower(entry) \in choices

\* get_input: the branch of an invalid entry, which warns and asks again
Warn ==
    /\ warnings < MaxWarnings
    /\ warnings' = warnings + 1

\* line 119: an iteration of main starts with a call of get_filters, which
\* starts a fresh frame and greets. What the iteration before left in city,
\* month, day and df is never read again (lines 396-397 rebind the four
\* names before any use), so their old values are dropped here, and
\* result_message holds what the sub-reports print from this greeting on.
get_filters_greet ==
    /\ pc = "get_filters"
    /\ pc' = "city"
    /\ city' = Unbound
    /\ filter_choice' = Unbound
    /\ month' = Unbound
    /\ day' = Unbound
    /\ warnings' = 0
    /\ df' = NoDataFrame
    /\ result_message' = [f \in DOMAIN result_message |-> <<>>]
    /\ UNCHANGED restart

\* line 123
get_filters_city ==
    /\ pc = "city"
    /\ \E entry \in Entries :
          IF Accepted(DOMAIN CITY_DATA, entry)
          THEN city' = Lower(entry) /\ pc' = "filter_choice" /\ UNCHANGED warnings
          ELSE Warn /\ UNCHANGED <<pc, city>>
    /\ UNCHANGED <<filter_choice, month, day, df, result_message, restart>>

\* line 128
get_filters_filter_choice ==
    /\ pc = "filter_choice"
    /\ \E entry \in Entries :
          IF Accepted(Range(filter_choice_options), entry)
          THEN filter_choice' = Lower(entry) /\ pc' = "month" /\ UNCHANGED warnings
          ELSE Warn /\ UNCHANGED <<pc, filter_choice>>
    /\ UNCHANGED <<city, month, day, df, result_message, restart>>

\* line 133 with the test on the wrong mode
get_filters_month_wrong_mode ==
    /\ pc = "month"
    /\ IF filter_choice = "day"
       THEN \E entry \in Entries :
               IF Accepted(Range(month_choices), entry)
               THEN month' = Lower(entry) /\ pc' = "day" /\ UNCHANGED warnings
               ELSE Warn /\ UNCHANGED <<pc, month>>
       ELSE month' = "all" /\ pc' = "day" /\ UNCHANGED warnings
    /\ UNCHANGED <<city, filter_choice, day, df, result_message, restart>>

\* line 133
get_filters_month ==
    /\ pc = "month"
    /\ IF filter_choice = "month"
       THEN \E entry \in Entries :
               IF Accepted(Range(month_choices), entry)
               THEN month' = Lower(entry) /\ pc' = "day" /\ UNCHANGED warnings
               ELSE Warn /\ UNCHANGED <<pc, month>>
       ELSE month' = "all" /\ pc' = "day" /\ UNCHANGED warnings
    /\ UNCHANGED <<city, filter_choice, day, df, result_message, restart>>

\* line 138, and the test of line 141
get_filters_day ==
    /\ pc = "day"
    /\ LET next == IF filter_choice = "both" THEN "both_month" ELSE "convert"
       IN  IF filter_choice = "day"
           THEN \E entry \in Entries :
                   IF Accepted(Range(day_choices), entry)
                   THEN day' = Lower(entry) /\ pc' = next /\ UNCHANGED warnings
                   ELSE Warn /\ UNCHANGED <<pc, day>>
           ELSE day' = "all" /\ pc' = next /\ UNCHANGED warnings
    /\ UNCHANGED <<city, filter_choice, month, df, result_message, restart>>

\* line 142
get_filters_both_month ==
    /\ pc = "both_month"
    /\ \E entry \in Entries :
          IF Accepted(Range(month_choices), entry)
          THEN month' = Lower(entry) /\ pc' = "both_day" /\ UNCHANGED warnings
          ELSE Warn /\ UNCHANGED <<pc, month>>
    /\ UNCHANGED <<city, filter_choice, day, df, result_message, restart>>

\* line 143
get_filters_both_day ==
    /\ pc = "both_day"
    /\ \E entry \in Entries :
          IF Accepted(Range(day_choices), entry)
          THEN day' = Lower(entry) /\ pc' = "convert" /\ UNCHANGED warnings
          ELSE Warn /\ UNCHANGED <<pc, day>>
    /\ UNCHANGED <<city, filter_choice, month, df, result_message, restart>>

\* line 147 with the week taken to start on Monday: int(day) - 1
DayName_from_monday(d) == PyIndex(day_name, PyInt(d) - 1)

\* line 147: calendar.day_name[int(day) - 2]
DayName(d) == PyIndex(day_name, PyInt(d) - 2)

get_filters_convert ==
    /\ pc = "convert"
    /\ day' = IF day # "all" THEN DayName(day) ELSE day
    /\ pc' = "return"
    /\ UNCHANGED <<city, filter_choice, month, warnings, df, result_message, restart>>

\* line 159: the frame ends, main binds city, month, day
get_filters_return ==
    /\ pc = "return"
    /\ pc' = "load_data"
    /\ filter_choice' = Unbound
    /\ warnings' = 0
    /\ UNCHANGED <<city, month, day, df, result_message, restart>>

\* -------------------------------------------------------------- load_data
\* lines 176-183: read the city's file, derive month and day_of_week
load_data_read ==
    /\ pc = "load_data"
    /\ \E rows \in FileRows, optional \in SUBSET OptionalColumns :
          LET columns == RequiredColumns \cup optional
              file == [columns |-> columns,
                       rows |-> [i \in DOMAIN rows |-> Restrict(rows[i], columns)]]
              with_month == AssignColumn(file, "month", [i \in DOMAIN rows |-> StartTime(file)[i].month])
          IN  df' = AssignColumn(with_month, "day_of_week",
                                 [i \in DOMAIN rows |-> StrftimeA(StartTime(file)[i])])
    /\ city \in DOMAIN CITY_DATA
    /\ pc' = "filter"
    /\ UNCHANGED <<city, filter_choice, month, day, warnings, result_message, restart>>

\* lines 186-192 with the month taken as its index in the list, from 0
FilterMonth_from_zero(d, m) ==
    IF m # "all" THEN Where(d, "month", PyListIndex(month_choices, m)) ELSE d

\* lines 186-192
FilterMonth(d, m) ==
    IF m # "all" THEN Where(d, "month", PyListIndex(month_choices, m) + 1) ELSE d

\* lines 196-198
FilterDay(d, dy) ==
    IF dy # "all" THEN Where(d, "day_of_week", Title(dy)) ELSE d

\* lines 186-203
load_data_filter ==
    /\ pc = "filter"
    /\ df' = FilterDay(FilterMonth(df, month), day)
    /\ pc' = "time_stats"
    /\ UNCHANGED <<city, filter_choice, month, day, warnings, result_message, restart>>

\* ---------------------------------------------------------------- reports
\* what a sub-report prints for one item: its label, its value, the extra
\* statistics that follow on the line and, for a counts table, the table
Line(label, value, extra, table) ==
    [label |-> label, value |-> value, extra |-> extra, table |-> table]

\* extra_stats_message with the percentage cut off instead of rounded
extra_stats_message_floor(stats_name, stats_value, stats_superset_value) ==
    [name |-> stats_name,
     value |-> PyStr(stats_value),
     percent |-> IF stats_superset_value # 0
                 THEN "~" \o PyStr((stats_value * 100) \div stats_superset_value) \o "%"
                 ELSE ""]

\* extra_stats_message: the label, str(stats_value) and, unless the superset
\* value is 0, the rounded percentage of the superset
extra_stats_message(stats_name, stats_value, stats_superset_value) ==
    [name |-> stats_name,
     value |-> PyStr(stats_value),
     percent |-> IF stats_superset_value # 0
                 THEN "~" \o PyStr(PyRound(stats_value * 100, stats_superset_value)) \o "%"
                 ELSE ""]

\* the item every most-frequent-value block builds: the count of the rows
\* that hold the value, against the count of the column
Popular(d, c, label, value_str, value) ==
    Line(label, value_str,
         <<extra_stats_message("Count", Count(Where(d, c, value), c), Count(d, c))>>, {})

\* an uncaught exception ends the program
Raise(d) ==
    /\ pc' = "raised"
    /\ df' = d
    /\ UNCHANGED <<city, filter_choice, month, day, warnings, result_message, restart>>

Report(f, lines, d) ==
    /\ result_message' = [result_message EXCEPT ![f] = lines]
    /\ df' = d
    /\ UNCHANGED <<city, filter_choice, month, day, warnings, restart>>

\* lines 215-223
TimeMonth(d, m) ==
    IF m = "all"
    THEN LET popular_month == Mode0(d, "month")
         IN  <<Popular(d, "month", "Most Popular Month", PyIndex(month_name, popular_month), popular_month)>>
    ELSE <<>>

\* lines 229-236
TimeDay(d, dy) ==
    IF dy = "all"
    THEN LET popular_day == Mode0(d, "day_of_week")
         IN  <<Popular(d, "day_of_week", "Most Popular Day of Week", popular_day, popular_day)>>
    ELSE <<>>

\* lines 241-249
TimeHour(d) ==
    LET popular_hour == Mode0(d, "hour")
    IN  <<Popular(d, "hour", "Most Popular Start Hour", PyStr(popular_hour), popular_hour)>>

\* line 241 followed by a narrowing of df to the rows of the first hour
WithHour_narrowed(d) ==
    Where(AssignColumn(d, "hour", [i \in DOMAIN d.rows |-> StartTime(d)[i].hour]), "hour", 0)

\* line 241
WithHour(d) == AssignColumn(d, "hour", [i \in DOMAIN d.rows |-> StartTime(d)[i].hour])

time_stats ==
    /\ pc = "time_stats"
    /\ IF (month = "all" /\ ModeRaises(df, "month")) \/ (day = "all" /\ ModeRaises(df, "day_of_week"))
       THEN Raise(df)
       ELSE IF ModeRaises(WithHour(df), "hour")
       THEN Raise(WithHour(df))
       ELSE /\ Report("time_stats",
                     TimeMonth(df, month) \o TimeDay(df, day) \o TimeHour(WithHour(df)),
                     WithHour(df))
            /\ pc' = "station_stats"

\* line 287
WithCombined(d) ==
    AssignColumn(d, "Combined Start-End",
                 [i \in DOMAIN d.rows |-> d.rows[i]["Start Station"] \o " -to- " \o d.rows[i]["End Station"]])

\* lines 264-295
StationLines(d) ==
    LET popular_start_station == Mode0(d, "Start Station")
        popular_end_station == Mode0(d, "End Station")
        popular_combined_stations == Mode0(d, "Combined Start-End")
    IN  << Popular(d, "Start Station", "Most Popular Start Station",
                   popular_start_station, popular_start_station),
           Popular(d, "End Station", "Most Popular End Station",
                   popular_end_station, popular_end_station),
           Popular(d, "Combined Start-End", "Most Popular Start/Stop Station Combination",
                   popular_combined_stations, popular_combined_stations) >>

station_stats ==
    /\ pc = "station_stats"
    /\ IF ModeRaises(df, "Start Station") \/ ModeRaises(df, "End Station")
       THEN Raise(df)
       ELSE IF ModeRaises(WithCombined(df), "Combined Start-End")
       THEN Raise(WithCombined(df))
       ELSE /\ Report("station_stats", StationLines(WithCombined(df)), WithCombined(df))
            /\ pc' = "trip_duration_stats"

\* lines 312-317 with the hours divided by 60 instead of 24
TotalTripDuration_hours_by_60(total_trip_duration) ==
    LET ms == Divmod(total_trip_duration, 60)
        hm == Divmod(ms[1], 60)
        dh == Divmod(hm[1], 60)
        yd == Divmod(dh[1], 365)
    IN  [y |-> yd[1], d |-> yd[2], h |-> dh[2], m |-> hm[2], s |-> ms[2]]

\* lines 312-317
TotalTripDuration(total_trip_duration) ==
    LET ms == Divmod(total_trip_duration, 60)
        hm == Divmod(ms[1], 60)
        dh == Divmod(hm[1], 24)
        yd == Divmod(dh[1], 365)
    IN  [y |-> yd[1], d |-> yd[2], h |-> dh[2], m |-> hm[2], s |-> ms[2]]

FormatTotal(t) ==
    PyStr(t.y) \o " years " \o Fmt02d(t.d) \o " days " \o Fmt02d(t.h) \o " hrs "
        \o Fmt02d(t.m) \o " min " \o Fmt02d(t.s) \o " sec"

\* lines 325-328: the mean is a float, "%d" drops its fraction
AvgTripDuration(total, count) ==
    LET ms == Divmod(total \div count, 60)
        hm == Divmod(ms[1], 60)
    IN  PyStr(hm[1]) \o " hrs " \o Fmt02d(hm[2]) \o " min " \o Fmt02d(ms[2]) \o " sec"

trip_duration_stats ==
    /\ pc = "trip_duration_stats"
    /\ IF Count(df, "Trip Duration") = 0
       THEN Raise(df)
       ELSE /\ Report("trip_duration_stats",
                     << Line("Total Trip(s) Duration", FormatTotal(TotalTripDuration(Sum(df, "Trip Duration"))), <<>>, {}),
                        Line("Average Trip Duration",
                             AvgTripDuration(Sum(df, "Trip Duration"), Count(df, "Trip Duration")), <<>>, {}) >>,
                     df)
            /\ pc' = "user_stats"

\* lines 349-355
UserTypes(d) == <<Line("Count of user types", "", <<>>, GroupCounts(d, "User Type"))>>

\* lines 361-368
HasGender(d) == "Gender" \in d.columns

Genders(d) ==
    IF HasGender(d) THEN <<Line("Count of user gender", "", <<>>, GroupCounts(d, "Gender"))>> ELSE <<>>

\* line 373
HasBirthYear(d) == "Birth Year" \in d.columns

\* lines 374-376: min(), max() and mode()[0] of a column without a value
\* are NaN, NaN and a KeyError, and NaN.__int__() raises
BirthYearRaises(d) == HasBirthYear(d) /\ Values(d, "Birth Year") = {}

\* lines 373-387
BirthYears(d) ==
    IF HasBirthYear(d)
    THEN LET years == Values(d, "Birth Year")
             earliest_year == CHOOSE y \in years : \A z \in years : y <= z
             soonest_year == CHOOSE y \in years : \A z \in years : y >= z
             common_year == Mode0(d, "Birth Year")
             common_year_count == Count(Where(d, "Birth Year", Mode0(d, "Birth Year")), "Birth Year")
         IN  <<Line("User's birth year", "",
                    << extra_stats_message("Earliest year", earliest_year, 0),
                       extra_stats_message("Most recent year", soonest_year, 0),
                       extra_stats_message("Most frequent year", common_year, 0),
                       extra_stats_message(" Count", common_year_count, Count(d, "Birth Year")) >>,
                    {})>>
    ELSE <<>>

user_stats ==
    /\ pc = "user_stats"
    /\ IF BirthYearRaises(df)
       THEN Raise(df)
       ELSE /\ Report("user_stats", UserTypes(df) \o Genders(df) \o BirthYears(df), df)
            /\ pc' = "restart"

\* ------------------------------------------------------------------- main
\* lines 404-406 without the lower-casing of the answer
main_restart_case_sensitive ==
    /\ pc = "restart"
    /\ \E entry \in Entries :
          /\ restart' = entry
          /\ pc' = IF entry # "yes" THEN "done" ELSE "get_filters"
    /\ UNCHANGED <<city, filter_choice, month, day, warnings, df, result_message>>

\* lines 404-406
main_restart ==
    /\ pc = "restart"
    /\ \E entry \in Entries :
          /\ restart' = entry
          /\ pc' = IF Lower(entry) # "yes" THEN "done" ELSE "get_filters"
    /\ UNCHANGED <<city, filter_choice, month, day, warnings, df, result_message>>

Next ==
    \/ get_filters_greet
    \/ get_filters_city
    \/ get_filters_filter_choice
    \/ get_filters_month
    \/ get_filters_day
    \/ get_filters_both_month
    \/ get_filters_both_day
    \/ get_filters_convert
    \/ get_filters_return
    \/ load_data_read
    \/ load_data_filter
    \/ time_stats
    \/ station_stats
    \/ trip_duration_stats
    \/ user_stats
    \/ main_restart

Spec == Init /\ [][Next]_vars

\* ================================================================= claims
Reports == {"time_stats", "station_stats", "trip_duration_stats", "user_stats"}

Printed(f) == result_message[f] # <<>>

Lines(f, label) == {result_message[f][i] : i \in {j \in DOMAIN result_message[f] : result_message[f][j].label = label}}

Weekdays == {"Monday", "Tuesday", "Wednesday", "Thursday", "Friday", "Saturday", "Sunday"}

MonthNumber ==
    ("january" :> 1) @@ ("february" :> 2) @@ ("march" :> 3) @@ ("april" :> 4)
        @@ ("may" :> 5) @@ ("june" :> 6)

\* ---- C1
Selected(r) ==
    /\ month = "all" \/ r["Start Time"].month = MonthNumber[month]
    /\ day = "all" \/ StrftimeA(r["Start Time"]) = day

\* C1: the filter of load_data returns exactly the rows of the loaded table
\* whose month is the selected month (unless 'all') and whose weekday name
\* is the selected day (unless 'all'), in their order, under the same
\* columns; with 'all' and 'all' it returns every row.
C1_FilterExact ==
    [][pc = "filter" =>
          /\ df'.columns = df.columns
          /\ df'.rows = SelectSeq(df.rows, Selected)
          /\ (month = "all" /\ day = "all" => Len(df'.rows) = Len(df.rows))]_vars

\* a filter on both axes has kept some rows of a table
C1_Witness ==
    /\ pc = "time_stats"
    /\ month = "june"
    /\ day = "Sunday"
    /\ Len(df.rows) = 2

\* ---- C2
\* C2: no iteration ends in an uncaught exception on a table without rows:
\* the empty result is detected before a most-frequent value is computed.
C2_EmptyResultDetected == ~(pc = "raised" /\ Len(df.rows) = 0)

\* ---- C3
DurationLine == CHOOSE l \in Lines("trip_duration_stats", "Total Trip(s) Duration") : TRUE

Decomposes(total) ==
    LET t == TotalTripDuration(total)
    IN  /\ t.s \in 0..59 /\ t.m \in 0..59 /\ t.h \in 0..23 /\ t.d \in 0..364 /\ t.y >= 0
        /\ t.y * 31536000 + t.d * 86400 + t.h * 3600 + t.m * 60 + t.s = total
        /\ DurationLine.value = FormatTotal(t)

\* C3 as stated: the total decomposes with divisors 60, 60, 24, 365, and
\* 31,622,400 seconds render as "1 years 000 days 00 hrs 00 min 00 sec".
C3_AsStated ==
    Printed("trip_duration_stats") =>
        /\ Decomposes(Sum(df, "Trip Duration"))
        /\ (Sum(df, "Trip Duration") = 31622400
               => DurationLine.value = "1 years 000 days 00 hrs 00 min 00 sec")

\* C3 amended: the total decomposes with divisors 60, 60, 24, 365 into
\* seconds < 60, minutes < 60, hours < 24, days < 365 and years that
\* recompose to the total, and 31,622,400 seconds (366 days) render as
\* "1 years 01 days 00 hrs 00 min 00 sec".
C3_Decomposition ==
    Printed("trip_duration_stats") =>
        /\ Decomposes(Sum(df, "Trip Duration"))
        /\ (Sum(df, "Trip Duration") = 31622400
               => DurationLine.value = "1 years 01 days 00 hrs 00 min 00 sec")

C3_Witness ==
    /\ Printed("trip_duration_stats")
    /\ Sum(df, "Trip Duration") = 31622400

\* ---- C4
\* C4: get_filters converts the accepted day entry n to the weekday name
\* with 1 = Sunday, 2 = Monday, ..., 7 = Saturday, and the name, title-cased
\* as load_data does, is the name derived for a date of that weekday
\* (n January 2017), so the seven entries map onto the seven weekdays.
C4_DayConversion ==
    [][pc = "convert" /\ day # "all" =>
          /\ day' = ("1" :> "Sunday" @@ "2" :> "Monday" @@ "3" :> "Tuesday" @@ "4" :> "Wednesday"
                        @@ "5" :> "Thursday" @@ "6" :> "Friday" @@ "7" :> "Saturday")[day]
          /\ Title(day') = StrftimeA([month |-> 1, day |-> PyInt(day), hour |-> 0])
          /\ Title(day') \in Weekdays]_vars

\* entry 1 has been converted, through index -1
C4_Witness ==
    /\ pc = "return"
    /\ day = "Sunday"

\* ---- C5
Triple ==
    /\ city \in {"chicago", "new york", "washington"}
    /\ month \in {"all", "january", "february", "march", "april", "may", "june"}
    /\ (month # "all") <=> (filter_choice \in {"month", "both"})
    /\ day \in {"all"} \cup Weekdays
    /\ (day # "all") <=> (filter_choice \in {"day", "both"})

\* C5: an invalid entry only warns and asks the same question again, and
\* the triple get_filters returns has a configured city, a month that is
\* 'all' or january..june and is not 'all' exactly in the modes 'month' and
\* 'both', and a day that is 'all' or a weekday name and is not 'all'
\* exactly in the modes 'day' and 'both'.
C5_ReturnedTriple ==
    [][/\ pc' = "return" => Triple'
       /\ warnings' > warnings =>
             /\ pc' = pc
             /\ <<city, filter_choice, month, day>>' = <<city, filter_choice, month, day>>]_vars

\* a triple is returned after an invalid entry, in the mode 'both'
C5_Witness ==
    /\ pc = "return"
    /\ warnings > 0
    /\ filter_choice = "both"

\* ---- C6
\* user_stats has run to its end, by returning or by an exception (the
\* trip-duration report before it is printed, the iteration ended there)
UserStatsOver ==
    \/ pc \in {"restart", "done"}
    \/ pc = "raised" /\ Printed("trip_duration_stats")

\* C6: user_stats reports the gender counts exactly when the table has a
\* Gender column, the birth years exactly when it has a Birth Year column,
\* and the user-type counts in every case.
C6_ColumnDriven ==
    UserStatsOver =>
        /\ Lines("user_stats", "Count of user types") # {}
        /\ Lines("user_stats", "Count of user gender") # {} <=> "Gender" \in df.columns
        /\ Lines("user_stats", "User's birth year") # {} <=> "Birth Year" \in df.columns

\* ---- C7
PopularLabels ==
    {"Most Popular Month", "Most Popular Day of Week", "Most Popular Start Hour",
     "Most Popular Start Station", "Most Popular End Station",
     "Most Popular Start/Stop Station Combination", "User's birth year"}

\* the value a most-frequent item reports and the statistics that follow it
ReportedValue(line) == IF line.label = "User's birth year" THEN line.extra[3].value ELSE line.value

ReportedCount(line) == IF line.label = "User's birth year" THEN line.extra[4] ELSE line.extra[1]

\* row r holds a value in the column of the item, and holds the value v
InColumn(label, r) == label = "User's birth year" => "Birth Year" \in DOMAIN r

Holds(label, r, v) ==
    CASE label = "Most Popular Month" -> PyIndex(month_name, r["Start Time"].month) = v
      [] label = "Most Popular Day of Week" -> StrftimeA(r["Start Time"]) = v
      [] label = "Most Popular Start Hour" -> PyStr(r["Start Time"].hour) = v
      [] label = "Most Popular Start Station" -> r["Start Station"] = v
      [] label = "Most Popular End Station" -> r["End Station"] = v
      [] label = "Most Popular Start/Stop Station Combination" ->
            r["Start Station"] \o " -to- " \o r["End Station"] = v
      [] label = "User's birth year" -> "Birth Year" \in DOMAIN r /\ PyStr(r["Birth Year"]) = v

Holders(line) ==
    Cardinality({i \in DOMAIN df.rows : Holds(line.label, df.rows[i], ReportedValue(line))})

WithValue(line) == Cardinality({i \in DOMAIN df.rows : InColumn(line.label, df.rows[i])})

PopularLines ==
    {l \in UNION {Range(result_message[f]) : f \in Reports} : l.label \in PopularLabels}

PercentTexts == {"~" \o PyStr(p) \o "%" : p \in 0..100}

HourTexts == {PyStr(h) : h \in 0..23}

Percentage(count, total) == "~" \o PyStr(PyRound(100 * count, total)) \o "%"

\* C7 as stated: the count of a most-frequent item is the number of rows
\* that hold its value, and its percentage is round(100 * count / total)
\* with total the number of rows of the filtered table, within 0..100.
C7_AsStated ==
    \A l \in PopularLines :
        /\ ReportedCount(l).value = PyStr(Holders(l))
        /\ Holders(l) <= Len(df.rows)
        /\ ReportedCount(l).percent = Percentage(Holders(l), Len(df.rows))
        /\ ReportedCount(l).percent \in PercentTexts

\* C7 amended: the count of a most-frequent item is the number of rows that
\* hold its value, and its percentage is round(100 * count / total) with
\* total the number of rows of the filtered table that hold a value in the
\* item's column (every row, but for Birth Year, where rows without a
\* birth year do not count); count <= total <= rows, percentage in 0..100.
C7_PercentOfColumn ==
    \A l \in PopularLines :
        /\ ReportedCount(l).value = PyStr(Holders(l))
        /\ Holders(l) <= WithValue(l)
        /\ WithValue(l) <= Len(df.rows)
        /\ l.label # "User's birth year" => WithValue(l) = Len(df.rows)
        /\ ReportedCount(l).percent = Percentage(Holders(l), WithValue(l))
        /\ ReportedCount(l).percent \in PercentTexts

\* a birth year is reported as most frequent with 2 of 3 rows holding it,
\* and a start hour with 2 of 3
C7_Witness ==
    /\ Len(df.rows) = 3
    /\ \E l \in PopularLines : l.label = "User's birth year" /\ ReportedCount(l).percent = "~67%"
    /\ \E l \in PopularLines : l.label = "Most Popular Start Hour" /\ ReportedCount(l).percent = "~67%"

\* ---- C8
\* time_stats has run to its end, by returning or by an exception (an
\* exception before any report of the iteration is one of time_stats)
TimeStatsOver ==
    \/ Printed("time_stats")
    \/ pc = "raised" /\ ~Printed("time_stats")

\* C8: time_stats reports the most frequent month exactly when the month
\* filter is 'all', the most frequent day exactly when the day filter is
\* 'all', and the most frequent start hour for every selection; the hour
\* is in 0..23 and a reported month or day occurs in the filtered table.
C8_TimeItems ==
    TimeStatsOver =>
        /\ Lines("time_stats", "Most Popular Month") # {} <=> month = "all"
        /\ Lines("time_stats", "Most Popular Day of Week") # {} <=> day = "all"
        /\ Lines("time_stats", "Most Popular Start Hour") # {}
        /\ \A l \in Lines("time_stats", "Most Popular Start Hour") :
              l.value \in HourTexts
        /\ \A l \in Lines("time_stats", "Most Popular Month") \cup Lines("time_stats", "Most Popular Day of Week") :
              \E i \in DOMAIN df.rows : Holds(l.label, df.rows[i], l.value)

\* ---- C9
Aggregating == pc \in {"time_stats", "station_stats", "trip_duration_stats", "user_stats"}

\* C9 as stated: no sub-report changes the table, neither its rows nor
\* its columns.
C9_AsStated == [][Aggregating => df' = df]_vars

\* C9 amended: no sub-report adds, drops or reorders a row or changes a
\* value of a column the table had; time_stats adds the column 'hour' and
\* station_stats the column 'Combined Start-End', and nothing else is added.
C9_RowsKept ==
    [][Aggregating =>
          /\ Len(df'.rows) = Len(df.rows)
          /\ \A i \in DOMAIN df.rows : Restrict(df'.rows[i], df.columns) = df.rows[i]
          /\ df.columns \subseteq df'.columns
          /\ df'.columns \ df.columns \subseteq
                (CASE pc = "time_stats" -> {"hour"}
                   [] pc = "station_stats" -> {"Combined Start-End"}
                   [] OTHER -> {})]_vars

\* the four sub-reports have run on a table of three rows, which now has
\* the two added columns
C9_Witness ==
    /\ pc = "restart"
    /\ Len(df.rows) = 3
    /\ {"hour", "Combined Start-End"} \subseteq df.columns

\* ---- C10
GetFilters ==
    {"get_filters", "city", "filter_choice", "month", "day", "both_month", "both_day", "convert", "return"}

\* C10: a step of an iteration begins only when the step before it is
\* complete: load_data after get_filters returned, the time report after
\* load_data, the station report after the time report is printed, the
\* duration report after the station report, the user report after the
\* duration report, the restart prompt after the user report; a new
\* iteration begins exactly on a restart answer that is 'yes' in lower
\* case, and on any other answer the program ends and takes no more step.
C10_StrictSequence ==
    [][/\ pc # "done"
       /\ pc \in GetFilters => pc' \in GetFilters \cup {"load_data"}
       /\ pc' = "load_data" => pc = "return"
       /\ pc' = "filter" => pc = "load_data"
       /\ pc' = "time_stats" => pc = "filter" /\ \A f \in Reports : ~Printed(f)'
       /\ pc' = "station_stats" => pc = "time_stats" /\ Printed("time_stats")'
       /\ pc' = "trip_duration_stats" => pc = "station_stats" /\ Printed("station_stats")'
       /\ pc' = "user_stats" => pc = "trip_duration_stats" /\ Printed("trip_duration_stats")'
       /\ pc' = "restart" => pc = "user_stats" /\ Printed("user_stats")'
       /\ pc' = "get_filters" => pc = "restart" /\ Lower(restart') = "yes"
       /\ pc' = "done" => pc = "restart" /\ Lower(restart') # "yes"
       /\ pc = "restart" => pc' \in {"get_filters", "done"} /\ result_message' = result_message]_vars

\* a second iteration, begun on the answer YES, has loaded its table
C10_Witness ==
    /\ pc = "time_stats"
    /\ restart = "YES"

====
